---- MODULE Spec2Model ----
(***************************************************************************)
(* Model of src/utils/chaincode_ops.js: the CPChaincode helper, its six    *)
(* operations, the invoke/query bridges over the hfc client, and the       *)
(* async.queue (concurrency 1) created by the constructor.                 *)
(*                                                                         *)
(* Two specifications share the same actions:                              *)
(*   Spec       the constructor and direct calls of the six operations,    *)
(*              with the full variety of inputs, payloads and events;      *)
(*   QueueSpec  a constructed instance on which operations are called      *)
(*              directly or from tasks pushed onto this.queue, with two    *)
(*              operations (one invoke-based, one query-based).            *)
(* FairQueueSpec adds the fairness of the external client's answers.       *)
(***************************************************************************)
EXTENDS Integers, Sequences, FiniteSets, TLC

VARIABLES status, ctorArgs, chain, chaincodeID, queue, tasks, calls, order, startOrder

vars == <<status, ctorArgs, chain, chaincodeID, queue, tasks, calls, order, startOrder>>

---------------------------------------------------------------------------
(* Bounds *)

\* operations called in Spec
MaxCalls == 1
\* operations called directly or pushed as tasks in QueueSpec
MaxOps == 2
\* terminal events one transaction emitter fires
MaxEvents == 2

---------------------------------------------------------------------------
(* Values *)

Undefined == "undefined"
Null == "null"

\* JavaScript truthiness of the values the constructor is given
Falsy(v) == v \in {Undefined, Null, ""}

PING_ID == "5e3be7bd2c42bd0c8d72aaf3d41aaaae382fba4b8c6f6c0ba993df8322d956ca6e20c2ef67cd1e042a83d4725c3b23835ee65243c8d50a13a74679ed9afb8fdb"

Chains == {Undefined, "hfcChain"}
ChaincodeIDs == {"", "cc_deployed", PING_ID}

EnrollIDs == {"alice", "bob"}
Companies == {"Acme"}
Papers == {[CUSIP |-> "c2", qty |-> 2]}
NoArg == "none"

\* byte payloads the client hands to the event listeners: the transaction
\* id with submitted, a result with completed and complete
TxIds == {[type |-> "bytes", data |-> "txid"]}
Payloads == {[type |-> "bytes", data |-> "d1"], [type |-> "bytes", data |-> "d2"]}
IdErrors == {"EnrollError"}
TxErrors == {"TxError"}

\* the inputs of QueueSpec
QEnrollIDs == {"alice"}

InvokeOps == {"createCompany", "createPaper", "transferPaper", "ping"}
QueryOps == {"getCompany", "getPapers"}

---------------------------------------------------------------------------
(* Pure functions *)

\* mutant: the payload is handed on as it is
toStringRaw(p) == p

\* toString: the text of a byte payload (Buffer.prototype.toString); of an
\* object that is no payload, the text of Object.prototype.toString
toString(p) ==
    IF "data" \in DOMAIN p THEN [type |-> "text", data |-> p.data]
    ELSE [type |-> "text", data |-> "[object Object]"]

\* JSON.stringify of a paper object, as the sequence of its tokens
JSONStringify(paper) ==
    <<"{", "\"CUSIP\":", paper.CUSIP, ",", "\"qty\":", paper.qty, "}">>

createRequest(ccid, enrollID) ==
    [chaincodeID |-> ccid, fcn |-> "createAccount", args |-> <<enrollID>>]

getCompanyRequest(ccid, company) ==
    [chaincodeID |-> ccid, fcn |-> "GetCompany", args |-> <<company>>]

createPaperRequest(ccid, paper) ==
    [chaincodeID |-> ccid, fcn |-> "issueCommercialPaper",
     args |-> <<JSONStringify(paper)>>]

\* mutant: ping built on the configured chaincodeID
pingRequestConfigured ==
    [chaincodeID |-> chaincodeID, fcn |-> "ping", args |-> <<"string">>,
     attrs |-> <<"username", "role">>]

pingRequest ==
    [chaincodeID |-> PING_ID, fcn |-> "ping", args |-> <<"string">>,
     attrs |-> <<"username", "role">>]

\* mutant: the JSON of the paper is placed twice in args
transferRequestTwice(ccid, paper) ==
    [chaincodeID |-> ccid, fcn |-> "transferPaper",
     args |-> <<JSONStringify(paper), JSONStringify(paper)>>]

transferRequest(ccid, paper) ==
    [chaincodeID |-> ccid, fcn |-> "transferPaper",
     args |-> <<JSONStringify(paper)>>]

getPapersRequest(ccid, enrollID) ==
    [chaincodeID |-> ccid, fcn |-> "GetAllCPs", args |-> <<enrollID>>]

\* the request descriptor an operation builds
Request(op, ccid, enrollID, arg) ==
    CASE op = "createCompany" -> createRequest(ccid, enrollID)
      [] op = "getCompany"    -> getCompanyRequest(ccid, arg)
      [] op = "createPaper"   -> createPaperRequest(ccid, arg)
      [] op = "ping"          -> pingRequest
      [] op = "transferPaper" -> transferRequest(ccid, arg)
      [] op = "getPapers"     -> getPapersRequest(ccid, enrollID)

\* the bridge an operation calls
BridgeOf(op) == IF op \in QueryOps THEN "query" ELSE "invoke"

\* the events a transaction emitter can fire, by bridge
InvokeEvents ==
    {[name |-> "submitted", payload |-> p] : p \in TxIds}
    \cup {[name |-> "completed", payload |-> p] : p \in {q \in Payloads : q.data = "d1"}}
    \cup {[name |-> "error", payload |-> e] : e \in TxErrors}

QueryEvents ==
    {[name |-> "complete", payload |-> [result |-> p]] : p \in Payloads}
    \cup {[name |-> "error", payload |-> e] : e \in TxErrors}

EventsOf(bridge) == IF bridge = "query" THEN QueryEvents ELSE InvokeEvents

\* the events of QueueSpec after the events fired: first a success or an
\* error, then the completion of the transaction
QEventsOf(bridge, fired) ==
    {ev \in EventsOf(bridge) :
        \/ fired = <<>> /\ ev.name \in {"submitted", "error"}
        \/ fired # <<>> /\ ev.name = "completed"
        \/ ev.name = "complete" /\ ev.payload.result.data = "d1"}

\* mutant: the error listener passes the error as a result
invokeOnErrorAsResult(ev) == [err |-> Null, result |-> ev.payload]

\* what the listeners of invoke() pass to its cb: cb(err) or cb(null, results)
invokeOn(ev) ==
    IF ev.name = "error" THEN [err |-> ev.payload]
    ELSE [err |-> Null, result |-> ev.payload]

\* mutant: query() passes the event payload without unwrapping it
queryOnRaw(ev) ==
    IF ev.name = "error" THEN [err |-> ev.payload]
    ELSE [err |-> Null, result |-> ev.payload]

\* what the listeners of query() pass to its cb
queryOn(ev) ==
    IF ev.name = "error" THEN [err |-> ev.payload]
    ELSE [err |-> Null, result |-> ev.payload.result]

BridgeOn(bridge, ev) == IF bridge = "query" THEN queryOn(ev) ELSE invokeOn(ev)

\* mutant: the operation wraps the error it is given
FacadeCbWrap(op, b) ==
    IF b.err # Null THEN [err |-> "WrappedError"]
    ELSE IF op \in QueryOps THEN [err |-> Null, result |-> toString(b.result)]
    ELSE [err |-> Null, result |-> b.result]

\* the callback an operation hands to its bridge: what it passes to the
\* caller's cb, given what the bridge passed to it
FacadeCb(op, b) ==
    IF b.err # Null THEN [err |-> b.err]
    ELSE IF op \in QueryOps THEN [err |-> Null, result |-> toString(b.result)]
    ELSE [err |-> Null, result |-> b.result]

---------------------------------------------------------------------------
(* State *)

\* one call of an operation, from the call of getMember on
NewCall(op, enrollID, arg, ccid, t) ==
    [op |-> op, enrollID |-> enrollID, arg |-> arg,
     req |-> Request(op, ccid, enrollID, arg),
     task |-> t,
     pc |-> "resolving",
     members |-> <<enrollID>>,
     idReply |-> <<>>,
     sent |-> <<>>,
     events |-> <<>>,
     bcbs |-> <<>>,
     cbs |-> <<>>]

NoQueue == [created |-> FALSE, tasks |-> <<>>, workers |-> 0]

\* mutant: a queue of two workers
ConcurrencyTwo == 1 + 1

\* async.queue(worker, 1)
Concurrency == 1

Init ==
    /\ status = "none"
    /\ ctorArgs = <<>>
    /\ chain = Undefined
    /\ chaincodeID = Undefined
    /\ queue = NoQueue
    /\ tasks = <<>>
    /\ calls = <<>>
    /\ order = <<>>
    /\ startOrder = <<>>

QInit ==
    /\ status = "ok"
    /\ ctorArgs = <<"hfcChain", "cc_deployed">>
    /\ chain = "hfcChain"
    /\ chaincodeID = "cc_deployed"
    /\ queue = [created |-> TRUE, tasks |-> <<>>, workers |-> 0]
    /\ tasks = <<>>
    /\ calls = <<>>
    /\ order = <<>>
    /\ startOrder = <<>>

Cur == [calls |-> calls, tasks |-> tasks, queue |-> queue, order |-> order,
        startOrder |-> startOrder]

Commit(s) ==
    /\ calls' = s.calls
    /\ tasks' = s.tasks
    /\ queue' = s.queue
    /\ order' = s.order
    /\ startOrder' = s.startOrder

---------------------------------------------------------------------------
(* The queue *)

\* mutant: the queue takes the task pushed last
NextTaskLast(q) == q.tasks[Len(q.tasks)]

\* the task the queue's process() takes next
NextTask(q) == Head(q.tasks)

\* mutant: the started task is left in the queue
StartTaskKeep(s, t) ==
    [s EXCEPT !.queue.workers = @ + 1,
              !.tasks[t].started = @ + 1,
              !.calls = Append(@, NewCall(s.tasks[t].op, s.tasks[t].enrollID,
                                          s.tasks[t].arg, chaincodeID, t)),
              !.startOrder = Append(@, t)]

\* the worker runs the task: task(callback); the task calls its operation
StartTask(s, t) ==
    [s EXCEPT !.queue.tasks = SelectSeq(@, LAMBDA u : u # t),
              !.queue.workers = @ + 1,
              !.tasks[t].started = @ + 1,
              !.calls = Append(@, NewCall(s.tasks[t].op, s.tasks[t].enrollID,
                                          s.tasks[t].arg, chaincodeID, t)),
              !.startOrder = Append(@, t)]

RECURSIVE QProcess(_)
\* process(): start queued tasks while a worker is free
QProcess(s) ==
    IF s.queue.workers < Concurrency /\ s.queue.tasks # <<>>
    THEN QProcess(StartTask(s, NextTask(s.queue)))
    ELSE s

\* the callback the queue hands to the worker; it acts once
TaskCallback(s, t) ==
    IF s.tasks[t].cbCount = 0
    THEN QProcess([s EXCEPT !.tasks[t].cbCount = 1, !.queue.workers = @ - 1])
    ELSE [s EXCEPT !.tasks[t].cbCount = @ + 1]

\* the caller's cb is called with rec; a task's cb completes the task
CallerCallback(s, c, rec) ==
    LET s1 == [s EXCEPT !.calls[c].cbs = Append(@, rec),
                        !.order = IF s.calls[c].cbs = <<>> THEN Append(@, c) ELSE @]
    IN IF s.calls[c].task # 0 THEN TaskCallback(s1, s.calls[c].task) ELSE s1

\* the bridge calls the cb the operation gave it with b; the operation
\* calls the caller's cb
BridgeCallback(s, c, b) ==
    CallerCallback([s EXCEPT !.calls[c].bcbs = Append(@, b)], c,
                   FacadeCb(s.calls[c].op, b))

---------------------------------------------------------------------------
(* Actions *)

\* mutant: the constructor throws only when both arguments are falsy
CPChaincodeBothFalsy(ch, id) ==
    /\ status = "none"
    /\ ctorArgs' = <<ch, id>>
    /\ IF Falsy(ch) /\ Falsy(id)
       THEN /\ status' = "threw"
            /\ UNCHANGED <<chain, chaincodeID, queue>>
       ELSE /\ status' = "ok"
            /\ chain' = ch
            /\ chaincodeID' = id
            /\ queue' = [created |-> TRUE, tasks |-> <<>>, workers |-> 0]
    /\ UNCHANGED <<tasks, calls, order, startOrder>>

\* new CPChaincode(chain, chaincodeID)
CPChaincode(ch, id) ==
    /\ status = "none"
    /\ ctorArgs' = <<ch, id>>
    /\ IF Falsy(ch) \/ Falsy(id)
       THEN /\ status' = "threw"
            /\ UNCHANGED <<chain, chaincodeID, queue>>
       ELSE /\ status' = "ok"
            /\ chain' = ch
            /\ chaincodeID' = id
            /\ queue' = [created |-> TRUE, tasks |-> <<>>, workers |-> 0]
    /\ UNCHANGED <<tasks, calls, order, startOrder>>

\* mutant: the operation overwrites this.chaincodeID
CallSetsID(op, enrollID, arg) ==
    /\ status = "ok"
    /\ Commit([Cur EXCEPT !.calls = Append(@, NewCall(op, enrollID, arg, chaincodeID, 0))])
    /\ chaincodeID' = PING_ID
    /\ UNCHANGED <<status, ctorArgs, chain>>

\* an operation called by the caller itself
Call(op, enrollID, arg) ==
    /\ status = "ok"
    /\ Commit([Cur EXCEPT !.calls = Append(@, NewCall(op, enrollID, arg, chaincodeID, 0))])
    /\ UNCHANGED <<status, ctorArgs, chain, chaincodeID>>

createCompany(enrollID) == Call("createCompany", enrollID, NoArg)
getCompany(enrollID, company) == Call("getCompany", enrollID, company)
createPaper(enrollID, paper) == Call("createPaper", enrollID, paper)
ping(enrollID) == Call("ping", enrollID, NoArg)
transferPaper(enrollID, paper) == Call("transferPaper", enrollID, paper)
getPapers(enrollID) == Call("getPapers", enrollID, NoArg)

\* mutant: push runs the task at once, whatever the workers do
PushRunNow(op, enrollID, arg) ==
    /\ status = "ok"
    /\ queue.created
    /\ Commit([Cur EXCEPT
           !.tasks = Append(@, [op |-> op, enrollID |-> enrollID, arg |-> arg,
                                started |-> 1, cbCount |-> 0]),
           !.queue.workers = @ + 1,
           !.calls = Append(@, NewCall(op, enrollID, arg, chaincodeID, Len(tasks) + 1)),
           !.startOrder = Append(@, Len(tasks) + 1)])
    /\ UNCHANGED <<status, ctorArgs, chain, chaincodeID>>

\* queue.push of a task that calls the operation and completes on its cb
Push(op, enrollID, arg) ==
    /\ status = "ok"
    /\ queue.created
    /\ Commit([Cur EXCEPT
           !.tasks = Append(@, [op |-> op, enrollID |-> enrollID, arg |-> arg,
                                started |-> 0, cbCount |-> 0]),
           !.queue.tasks = Append(@, Len(tasks) + 1)])
    /\ UNCHANGED <<status, ctorArgs, chain, chaincodeID>>

\* the process() that push schedules
Process ==
    /\ status = "ok"
    /\ queue.workers < Concurrency
    /\ queue.tasks # <<>>
    /\ Commit(QProcess(Cur))
    /\ UNCHANGED <<status, ctorArgs, chain, chaincodeID>>

\* mutant: the transaction is submitted whatever getMember reported
GetMemberSubmitAnyway(c, err) ==
    /\ c \in 1..Len(calls)
    /\ calls[c].pc = "resolving"
    /\ Commit([Cur EXCEPT !.calls[c].pc = "submitted",
                          !.calls[c].idReply = <<err>>,
                          !.calls[c].sent =
                              Append(@, [fn |-> BridgeOf(calls[c].op),
                                         req |-> calls[c].req])])
    /\ UNCHANGED <<status, ctorArgs, chain, chaincodeID>>

\* mutant: a getMember error is logged and cb is not called
GetMemberNoCb(c, err) ==
    /\ c \in 1..Len(calls)
    /\ calls[c].pc = "resolving"
    /\ IF err # Null
       THEN Commit([Cur EXCEPT !.calls[c].pc = "idfailed",
                               !.calls[c].idReply = <<err>>])
       ELSE Commit([Cur EXCEPT !.calls[c].pc = "submitted",
                               !.calls[c].idReply = <<err>>,
                               !.calls[c].sent =
                                   Append(@, [fn |-> BridgeOf(calls[c].op),
                                              req |-> calls[c].req])])
    /\ UNCHANGED <<status, ctorArgs, chain, chaincodeID>>

\* the callback of chain.getMember in invoke() and query()
GetMember(c, err) ==
    /\ c \in 1..Len(calls)
    /\ calls[c].pc = "resolving"
    /\ IF err # Null
       THEN Commit(BridgeCallback([Cur EXCEPT !.calls[c].pc = "idfailed",
                                              !.calls[c].idReply = <<err>>],
                                  c, [err |-> err]))
       ELSE Commit([Cur EXCEPT !.calls[c].pc = "submitted",
                               !.calls[c].idReply = <<err>>,
                               !.calls[c].sent =
                                   Append(@, [fn |-> BridgeOf(calls[c].op),
                                              req |-> calls[c].req])])
    /\ UNCHANGED <<status, ctorArgs, chain, chaincodeID>>

\* a listener registered on invokeTx / queryTx runs
TxEvent(c, ev) ==
    /\ c \in 1..Len(calls)
    /\ calls[c].pc = "submitted"
    /\ Len(calls[c].events) < MaxEvents
    /\ Commit(BridgeCallback([Cur EXCEPT !.calls[c].events = Append(@, ev)], c,
                             BridgeOn(BridgeOf(calls[c].op), ev)))
    /\ UNCHANGED <<status, ctorArgs, chain, chaincodeID>>

---------------------------------------------------------------------------
(* Specifications *)

NumOps == Cardinality({c \in 1..Len(calls) : calls[c].task = 0}) + Len(tasks)

Next ==
    \/ \E ch \in Chains, id \in ChaincodeIDs : CPChaincode(ch, id)
    \/ Len(calls) < MaxCalls /\ \E e \in EnrollIDs : createCompany(e)
    \/ Len(calls) < MaxCalls /\ \E e \in EnrollIDs, co \in Companies : getCompany(e, co)
    \/ Len(calls) < MaxCalls /\ \E e \in EnrollIDs, p \in Papers : createPaper(e, p)
    \/ Len(calls) < MaxCalls /\ \E e \in EnrollIDs : ping(e)
    \/ Len(calls) < MaxCalls /\ \E e \in EnrollIDs, p \in Papers : transferPaper(e, p)
    \/ Len(calls) < MaxCalls /\ \E e \in EnrollIDs : getPapers(e)
    \/ \E c \in 1..Len(calls), err \in IdErrors \cup {Null} : GetMember(c, err)
    \/ \E c \in 1..Len(calls) :
          \E ev \in EventsOf(BridgeOf(calls[c].op)) : TxEvent(c, ev)

Spec == Init /\ [][Next]_vars

QNext ==
    \/ NumOps < MaxOps /\ \E e \in QEnrollIDs : createCompany(e)
    \/ NumOps < MaxOps /\ \E e \in QEnrollIDs : getPapers(e)
    \/ NumOps < MaxOps /\ \E e \in QEnrollIDs : Push("createCompany", e, NoArg)
    \/ NumOps < MaxOps /\ \E e \in QEnrollIDs : Push("getPapers", e, NoArg)
    \/ Process
    \/ \E c \in 1..Len(calls), err \in IdErrors \cup {Null} : GetMember(c, err)
    \/ \E c \in 1..Len(calls) :
          \E ev \in QEventsOf(BridgeOf(calls[c].op), calls[c].events) : TxEvent(c, ev)

QueueSpec == QInit /\ [][QNext]_vars

\* the client answers every getMember, every emitter fires a first terminal
\* event, and a scheduled process() runs
FairQueueSpec ==
    /\ QueueSpec
    /\ WF_vars(Process)
    /\ \A c \in 1..MaxOps :
          /\ WF_vars(\E err \in IdErrors \cup {Null} : GetMember(c, err))
          /\ WF_vars(\E ev \in QEventsOf("invoke", <<>>) \cup QEventsOf("query", <<>>) :
                        c \in 1..Len(calls) /\ calls[c].events = <<>>
                        /\ ev \in QEventsOf(BridgeOf(calls[c].op), <<>>)
                        /\ TxEvent(c, ev))

---------------------------------------------------------------------------
(* Claims *)

CallIds == 1..Len(calls)
TaskIds == 1..Len(tasks)

\* getMember called or transaction submitted, and no terminal event delivered
Outstanding(c) ==
    \/ calls[c].pc = "resolving"
    \/ calls[c].pc = "submitted" /\ calls[c].events = <<>>

Queued(c) == calls[c].task # 0

Running(t) == tasks[t].started > 0 /\ tasks[t].cbCount = 0

\* C1 as stated: whatever the interleaving of calls of the operations on one
\* instance, at most one invoke/query is outstanding at the external client.
C1_OneOutstanding ==
    Cardinality({c \in CallIds : Outstanding(c)}) <= 1

\* C1 amended: among the operations called from tasks pushed onto the
\* instance's queue at most one is outstanding at the external client; the
\* operations themselves do not use the queue: only running tasks hold a
\* worker.
C1_QueuedOneOutstanding ==
    /\ Cardinality({c \in CallIds : Queued(c) /\ Outstanding(c)}) <= 1
    /\ queue.workers = Cardinality({t \in TaskIds : Running(t)})

\* the operation of the running task waits for its identity while another
\* task waits in the queue
C1_Witness ==
    /\ queue.tasks # <<>>
    /\ \E c \in CallIds : Queued(c) /\ calls[c].pc = "resolving"

\* C2 as stated: of two operations called in the order A, B on one instance,
\* A's caller callback fires before B's.
C2_CallbackOrder ==
    \A i, j \in 1..Len(order) : i < j => order[i] < order[j]

\* C2 amended: of two operations called from tasks pushed in the order A, B,
\* the caller callback of A first fires before the operation of B is called,
\* hence before the caller callback of B.
C2_QueuedCallbackOrder ==
    /\ \A i, j \in 1..Len(order) :
          (i < j /\ Queued(order[i]) /\ Queued(order[j]))
              => calls[order[i]].task < calls[order[j]].task
    /\ \A c, d \in CallIds :
          (Queued(c) /\ Queued(d) /\ calls[c].task < calls[d].task)
              => calls[c].cbs # <<>>

\* the callbacks of two queued operations have both fired
C2_Witness ==
    \E i, j \in 1..Len(order) :
        i < j /\ Queued(order[i]) /\ Queued(order[j])

\* C3: the task bodies start in push order, each at most once, at most one
\* task is executing, and a task starts only after the completion callback
\* of every task started before it has fired.
C3_SerialInPushOrder ==
    /\ \A i \in 1..Len(startOrder) : startOrder[i] = i
    /\ \A t \in TaskIds : tasks[t].started <= 1
    /\ \A t \in TaskIds : tasks[t].started = 1 <=> t \in 1..Len(startOrder)
    /\ Cardinality({t \in TaskIds : Running(t)}) <= 1
    /\ \A t, u \in TaskIds : (u < t /\ tasks[t].started > 0) => tasks[u].cbCount >= 1

\* the second task pushed runs after the first one completed
C3_Witness ==
    /\ Len(startOrder) = 2
    /\ tasks[1].cbCount >= 1
    /\ Running(2)

\* C4: no step other than the completion callback of the running task
\* starts a task: while a task runs and its callback does not fire, the
\* tasks pushed after it stay where they are.
C4_NoAdvanceWithoutCallback ==
    [][\A t \in TaskIds :
          (Running(t) /\ tasks'[t].cbCount = 0) => startOrder' = startOrder]_vars

\* a task runs, its transaction is submitted and no event has come, and a
\* task pushed after it waits
C4_Witness ==
    \E c \in CallIds :
        /\ Queued(c)
        /\ Running(calls[c].task)
        /\ calls[c].pc = "submitted"
        /\ queue.tasks # <<>>
        /\ Head(queue.tasks) > calls[c].task

\* C5 as stated: the caller's callback of an invoke-based operation is
\* called at most once, whatever the emitter fires after its first event.
C5_CallbackOnce ==
    \A c \in CallIds : calls[c].op \in InvokeOps => Len(calls[c].cbs) <= 1

\* C6: in invoke(), a first event submitted or completed calls cb with a null
\* error and the event's payload, a first event error calls cb with the error
\* alone; the call is resolved as soon as the first event is there.
C6_FirstEventResolves ==
    \A c \in CallIds :
        (calls[c].op \in InvokeOps /\ calls[c].events # <<>>) =>
            /\ calls[c].idReply = <<Null>>
            /\ calls[c].bcbs # <<>>
            /\ LET ev == calls[c].events[1]
                   b == calls[c].bcbs[1]
               IN /\ ev.name \in {"submitted", "completed"} =>
                        /\ DOMAIN b = {"err", "result"}
                        /\ b.err = Null
                        /\ b.result = ev.payload
                  /\ ev.name = "error" =>
                        /\ DOMAIN b = {"err"}
                        /\ b.err = ev.payload

\* invoke() resolved a call on submitted alone
C6_Witness ==
    \E c \in CallIds :
        /\ calls[c].op \in InvokeOps
        /\ Len(calls[c].events) = 1
        /\ calls[c].events[1].name = "submitted"
        /\ Len(calls[c].bcbs) = 1
        /\ calls[c].bcbs[1].err = Null

\* C7: the constructor throws exactly when one of its arguments is falsy,
\* and then stores nothing, creates no queue and no request is built; else
\* it stores its two arguments and creates the queue.
C7_Constructor ==
    /\ status = "none" => ctorArgs = <<>> /\ calls = <<>> /\ tasks = <<>>
    /\ status # "none" =>
          /\ Len(ctorArgs) = 2
          /\ status = "threw" <=> (Falsy(ctorArgs[1]) \/ Falsy(ctorArgs[2]))
    /\ status = "threw" =>
          /\ chain = Undefined
          /\ chaincodeID = Undefined
          /\ ~queue.created
          /\ calls = <<>>
          /\ tasks = <<>>
    /\ status = "ok" =>
          /\ chain = ctorArgs[1]
          /\ chaincodeID = ctorArgs[2]
          /\ queue.created

\* the constructor threw on a falsy chaincodeID with a chain object
C7_Witness ==
    /\ status = "threw"
    /\ ctorArgs[1] = "hfcChain"
    /\ ctorArgs[2] = ""

\* C8: an error of getMember or of the emitter reaches the caller's callback
\* as it is and alone, and the operation calls getMember once and submits
\* at most once, never after an identity error.
C8_ErrorUnchangedNoRetry ==
    \A c \in CallIds :
        /\ Len(calls[c].members) = 1
        /\ Len(calls[c].sent) <= 1
        /\ calls[c].pc = "idfailed" =>
              /\ calls[c].sent = <<>>
              /\ calls[c].events = <<>>
              /\ Len(calls[c].cbs) = 1
              /\ DOMAIN calls[c].cbs[1] = {"err"}
              /\ calls[c].cbs[1].err = calls[c].idReply[1]
        /\ calls[c].pc = "submitted" =>
              /\ Len(calls[c].cbs) = Len(calls[c].events)
              /\ \A i \in 1..Len(calls[c].events) :
                    calls[c].events[i].name = "error" =>
                        /\ DOMAIN calls[c].cbs[i] = {"err"}
                        /\ calls[c].cbs[i].err = calls[c].events[i].payload

\* a query-based operation handed the emitter's error to its caller
C8_Witness ==
    \E c \in CallIds :
        /\ calls[c].op \in QueryOps
        /\ calls[c].events # <<>>
        /\ calls[c].events[1].name = "error"
        /\ calls[c].cbs[1] = [err |-> "TxError"]

C10_PingRequest ==
    \A c \in CallIds :
        /\ calls[c].op = "ping" =>
              /\ calls[c].req.chaincodeID = PING_ID
              /\ calls[c].req.fcn = "ping"
              /\ calls[c].req.args = <<"string">>
              /\ DOMAIN calls[c].req = {"chaincodeID", "fcn", "args", "attrs"}
              /\ calls[c].req.attrs = <<"username", "role">>
              /\ \A i \in 1..Len(calls[c].sent) :
                    calls[c].sent[i] = [fn |-> "invoke", req |-> calls[c].req]
        /\ calls[c].op # "ping" =>
              /\ DOMAIN calls[c].req = {"chaincodeID", "fcn", "args"}
              /\ calls[c].req.chaincodeID = chaincodeID
              /\ calls[c].req.fcn # "ping"

\* ping was submitted on an instance constructed with another chaincodeID
C10_Witness ==
    \E c \in CallIds :
        /\ calls[c].op = "ping"
        /\ chaincodeID = "cc_deployed"
        /\ calls[c].sent # <<>>
        /\ calls[c].sent[1].req.chaincodeID = PING_ID

\* the JSON text of a paper, token by token
PaperJSON(paper) ==
    <<"{", "\"CUSIP\":", paper.CUSIP, ",", "\"qty\":", paper.qty, "}">>

\* the request of the operation table for a call other than ping
TableRequest(c) ==
    CASE calls[c].op = "createCompany" ->
             [fn |-> "invoke",
              req |-> [chaincodeID |-> ctorArgs[2], fcn |-> "createAccount",
                       args |-> <<calls[c].enrollID>>]]
      [] calls[c].op = "getCompany" ->
             [fn |-> "query",
              req |-> [chaincodeID |-> ctorArgs[2], fcn |-> "GetCompany",
                       args |-> <<calls[c].arg>>]]
      [] calls[c].op = "createPaper" ->
             [fn |-> "invoke",
              req |-> [chaincodeID |-> ctorArgs[2], fcn |-> "issueCommercialPaper",
                       args |-> <<PaperJSON(calls[c].arg)>>]]
      [] calls[c].op = "transferPaper" ->
             [fn |-> "invoke",
              req |-> [chaincodeID |-> ctorArgs[2], fcn |-> "transferPaper",
                       args |-> <<PaperJSON(calls[c].arg)>>]]
      [] calls[c].op = "getPapers" ->
             [fn |-> "query",
              req |-> [chaincodeID |-> ctorArgs[2], fcn |-> "GetAllCPs",
                       args |-> <<calls[c].enrollID>>]]

\* C11: an operation other than ping builds the request of the operation
\* table on the constructor's chaincodeID, resolves the identity of the
\* enrollID it was given, and hands that request to the primitive of the table.
C11_RequestTable ==
    \A c \in CallIds :
        calls[c].op # "ping" =>
            /\ calls[c].req = TableRequest(c).req
            /\ Len(calls[c].req.args) = 1
            /\ calls[c].members = <<calls[c].enrollID>>
            /\ \A i \in 1..Len(calls[c].sent) : calls[c].sent[i] = TableRequest(c)

\* transferPaper for bob submitted the JSON of the paper as its only
\* argument
C11_Witness ==
    \E c \in CallIds :
        /\ calls[c].op = "transferPaper"
        /\ calls[c].enrollID = "bob"
        /\ calls[c].arg.CUSIP = "c2"
        /\ Len(calls[c].sent) = 1
        /\ calls[c].sent[1].req.args = <<<<"{", "\"CUSIP\":", "c2", ",", "\"qty\":", 2, "}">>>>

\* the results the caller's callback was given by call c
Results(c) ==
    {calls[c].cbs[i].result : i \in {j \in 1..Len(calls[c].cbs) :
                                        "result" \in DOMAIN calls[c].cbs[j]}}

\* C12 as stated: every result an operation hands to its caller, invoke-based
\* or query-based, is text and never the byte payload of the client.
C12_AllResultsText ==
    \A c \in CallIds : \A r \in Results(c) : r.type = "text"

\* C12 amended: getCompany and getPapers hand their caller the text of the
\* byte payload; createCompany, createPaper, transferPaper and ping hand
\* their caller the event payload as the client delivered it.
C12_QueryResultsText ==
    \A c \in CallIds :
        calls[c].pc = "submitted" =>
            \A i \in 1..Len(calls[c].events) :
                calls[c].events[i].name # "error" =>
                    /\ i <= Len(calls[c].cbs)
                    /\ DOMAIN calls[c].cbs[i] = {"err", "result"}
                    /\ calls[c].op \in QueryOps =>
                          /\ calls[c].cbs[i].result.type = "text"
                          /\ calls[c].cbs[i].result.data =
                                 calls[c].events[i].payload.result.data
                    /\ calls[c].op \in InvokeOps =>
                          calls[c].cbs[i].result = calls[c].events[i].payload

\* getCompany handed its caller the text of the second payload
C12_Witness ==
    \E c \in CallIds :
        /\ calls[c].op = "getCompany"
        /\ calls[c].events # <<>>
        /\ calls[c].events[1] = [name |-> "complete",
                                 payload |-> [result |-> [type |-> "bytes", data |-> "d2"]]]
        /\ calls[c].cbs[1] = [err |-> Null, result |-> [type |-> "text", data |-> "d2"]]

\* the steps of one call: Created -> IdentityResolving -> IdentityFailed, or
\* -> Submitting, and no step back
CallStep(old, new) ==
    \/ /\ old.pc = "resolving"
       /\ new.pc = "resolving"
       /\ new.sent = <<>>
    \/ /\ old.pc = "resolving"
       /\ new.pc = "idfailed"
       /\ new.idReply # <<Null>>
       /\ new.sent = <<>>
    \/ /\ old.pc = "resolving"
       /\ new.pc = "submitted"
       /\ new.idReply = <<Null>>
       /\ Len(new.sent) = 1
    \/ /\ old.pc = "idfailed"
       /\ new.pc = "idfailed"
       /\ new.sent = <<>>
       /\ new.events = <<>>
    \/ /\ old.pc = "submitted"
       /\ new.pc = "submitted"
       /\ new.sent = old.sent

\* C13: a call starts by calling getMember once, for itself; it submits at
\* most once and only when getMember reported success; after an error of
\* getMember it never submits; getMember is never called again.
C13_CallLifecycle ==
    [][/\ Len(calls') >= Len(calls)
       /\ \A c \in 1..Len(calls') :
             /\ Len(calls'[c].members) = 1
             /\ c > Len(calls) =>
                   /\ calls'[c].pc = "resolving"
                   /\ calls'[c].idReply = <<>>
                   /\ calls'[c].sent = <<>>
             /\ c <= Len(calls) =>
                   /\ CallStep(calls[c], calls'[c])
                   /\ calls'[c].members = calls[c].members]_vars

\* one call failed at identity resolution and submitted nothing while
\* another call of the same enrollID was submitted
C13_Witness ==
    \E c, d \in CallIds :
        /\ calls[c].enrollID = calls[d].enrollID
        /\ calls[c].pc = "idfailed"
        /\ calls[c].sent = <<>>
        /\ calls[d].pc = "submitted"
        /\ Len(calls[d].sent) = 1
        /\ calls[d].events # <<>>

\* C14: on complete, query() calls its cb with the result field of the event
\* payload; on submitted or completed, invoke() calls its cb with the event
\* payload itself; getCompany and getPapers hand their caller the text of
\* the unwrapped value.
C14_QueryUnwraps ==
    \A c \in CallIds :
        calls[c].pc = "submitted" =>
            /\ Len(calls[c].bcbs) = Len(calls[c].events)
            /\ \A i \in 1..Len(calls[c].events) :
                  LET ev == calls[c].events[i]
                      b == calls[c].bcbs[i]
                  IN /\ ev.name = "complete" =>
                           /\ calls[c].op \in QueryOps
                           /\ b = [err |-> Null, result |-> ev.payload.result]
                           /\ b.result # ev.payload
                           /\ calls[c].cbs[i].result =
                                  [type |-> "text", data |-> ev.payload.result.data]
                     /\ ev.name \in {"submitted", "completed"} =>
                           /\ calls[c].op \in InvokeOps
                           /\ b = [err |-> Null, result |-> ev.payload]

\* getPapers resolved on complete with the unwrapped payload, and
\* its caller got the text of it
C14_Witness ==
    \E c \in CallIds :
        /\ calls[c].op = "getPapers"
        /\ Len(calls[c].events) = 1
        /\ calls[c].events[1].name = "complete"
        /\ calls[c].bcbs[1].result = calls[c].events[1].payload.result
        /\ calls[c].cbs[1].result.type = "text"

\* C15: on a constructed instance no step changes this.chain or
\* this.chaincodeID, the queue stays the one the constructor created, and
\* the request a call built stays as built and is the one submitted.
C15_SharedStateReadOnly ==
    [][status = "ok" =>
          /\ status' = "ok"
          /\ chain' = chain
          /\ chaincodeID' = chaincodeID
          /\ chain' = ctorArgs[1]
          /\ chaincodeID' = ctorArgs[2]
          /\ queue'.created
          /\ \A c \in CallIds :
                /\ calls'[c].req = calls[c].req
                /\ calls'[c].op = calls[c].op
                /\ calls'[c].enrollID = calls[c].enrollID
                /\ \A i \in 1..Len(calls'[c].sent) :
                      calls'[c].sent[i].req = calls[c].req]_vars

\* a call failed, another resolved twice from a task, and the instance is
\* as constructed
C15_Witness ==
    /\ chain = "hfcChain"
    /\ chaincodeID = "cc_deployed"
    /\ \E c, d \in CallIds :
          /\ calls[c].pc = "idfailed"
          /\ Queued(d)
          /\ Len(calls[d].events) = 2
          /\ calls[d].sent[1].req = calls[d].req
          /\ calls[d].req.chaincodeID = "cc_deployed"

\* C16 as stated: the caller's callback of a query-based operation is called
\* at most once per call, whatever the query emitter fires.
C16_QueryCallbackOnce ==
    \A c \in CallIds : calls[c].op \in QueryOps => Len(calls[c].cbs) <= 1

====
